---- MODULE Spec2Model ----
(***************************************************************************)
(* A model of the two demonstration servers of the repository:             *)
(*   - backend_server.py : init_db and AutomationServiceHandler            *)
(*     (do_OPTIONS, do_GET, do_POST);                                      *)
(*   - frontend_server.py: AutomationServiceFrontendHandler                *)
(*     (do_GET, do_OPTIONS and the inherited do_HEAD).                     *)
(* One request is one atomic step: the handler runs to its end or to the   *)
(* exception that ends it.  What a handler puts on the socket is the       *)
(* sequence `wire` of events, in the order of the calls that emit them.    *)
(* The Server and Date headers that the library's send_response adds to    *)
(* every status line are not modelled.                                     *)
(***************************************************************************)
EXTENDS Integers, Sequences, FiniteSets, TLC

VARIABLES
    running,     \* the backend process is up (init_db has run, serve_forever)
    runs,        \* number of times the backend process was started
    db,          \* the content of the file DB_FILE
    initError,   \* the exception the last init_db raised, or "none"
    req,         \* the last request the backend handled
    wire,        \* what the backend wrote to the socket for that request
    exc,         \* the exception that ended the backend handler, or "none"
    stdout,      \* what the backend handler printed for that request
    memo,        \* an earlier request of the backend with what it answered
    fs,          \* the content of the directory "frontend"
    freq,        \* the last request the frontend handled
    fpath,       \* self.path of the frontend handler when it served the request
    fwire        \* what the frontend wrote to the socket for that request

vars == <<running, runs, db, initError, req, wire, exc, stdout, memo,
          fs, freq, fpath, fwire>>

backendVars == <<running, runs, db, initError, req, wire, exc, stdout, memo>>
frontendVars == <<fs, freq, fpath, fwire>>

(***************************************************************************)
(* Bounds                                                                  *)
(***************************************************************************)
\* how many times the backend process is started against the same DB_FILE
MaxRuns == 3
\* how many atoms follow the leading "/" of a frontend request path
MaxPathLen == 3

(***************************************************************************)
(* Events on the socket and on standard output                             *)
(***************************************************************************)
Status(code) == [kind |-> "status", code |-> code]
Header(name, value) == [kind |-> "header", name |-> name, value |-> value]
EndHeaders == [kind |-> "end_headers"]
Body(content) == [kind |-> "body", content |-> content]

\* json.dumps(response).encode(): the JSON text of the payload, as bytes
JsonDumps(response) == [encoding |-> "utf-8", json |-> response]

(***************************************************************************)
(* JSON values.  A leaf is a scalar of a JSON document; Python's None is   *)
(* JSON null.  A parsed document carries its Python type.                  *)
(***************************************************************************)
JStr(s) == [type |-> "str", val |-> s]
JNum(n) == [type |-> "int", val |-> n]
JNull == [type |-> "NoneType", val |-> "null"]

Dict(items) == [type |-> "dict", items |-> items, val |-> ""]
NonDict(type, text) == [type |-> type, items |-> {}, val |-> text]
EmptyDict == Dict({})

\* dict.get(key): the value under the key, None when the key is absent
Get(data, key) ==
    IF \E p \in data.items : p[1] = key
    THEN (CHOOSE p \in data.items : p[1] = key)[2]
    ELSE JNull

DEMO_EMAIL == "demo@automationservice.com"
DEMO_PASSWORD == "demo123"

(***************************************************************************)
(* The request bodies the model sends, as the text on the wire.            *)
(***************************************************************************)
B_demo == "{\"email\": \"demo@automationservice.com\", \"password\": \"demo123\"}"
B_wrongPassword == "{\"email\": \"demo@automationservice.com\", \"password\": \"wrong\"}"
B_upperEmail == "{\"email\": \"Demo@automationservice.com\", \"password\": \"demo123\"}"
B_new == "{\"email\": \"new@example.com\", \"password\": \"pw\", \"name\": \"Ann\"}"
B_emailOnly == "{\"email\": \"demo@automationservice.com\"}"
B_emptyObject == "{}"
B_array == "[]"
B_string == "\"hello\""
B_number == "5"
B_true == "true"
B_null == "null"
B_empty == ""
B_truncated == "{\"email\": "
B_notUtf8 == "<0xff>"

ObjectBodies == {B_demo, B_wrongPassword, B_upperEmail, B_new, B_emailOnly, B_emptyObject}
NonObjectBodies == {B_array, B_string, B_number, B_true, B_null}
MalformedBodies == {B_empty, B_truncated, B_notUtf8}
Bodies == ObjectBodies \cup NonObjectBodies \cup MalformedBodies

\* json.loads(post_data.decode('utf-8')): the parsed document, or the
\* exception it raises (JSONDecodeError is a ValueError)
json_loads(text) ==
    CASE text = B_demo ->
           [raised |-> "none",
            value |-> Dict({<<"email", JStr(DEMO_EMAIL)>>, <<"password", JStr(DEMO_PASSWORD)>>})]
      [] text = B_wrongPassword ->
           [raised |-> "none",
            value |-> Dict({<<"email", JStr(DEMO_EMAIL)>>, <<"password", JStr("wrong")>>})]
      [] text = B_upperEmail ->
           [raised |-> "none",
            value |-> Dict({<<"email", JStr("Demo@automationservice.com")>>,
                            <<"password", JStr(DEMO_PASSWORD)>>})]
      [] text = B_new ->
           [raised |-> "none",
            value |-> Dict({<<"email", JStr("new@example.com")>>, <<"password", JStr("pw")>>,
                            <<"name", JStr("Ann")>>})]
      [] text = B_emailOnly ->
           [raised |-> "none", value |-> Dict({<<"email", JStr(DEMO_EMAIL)>>})]
      [] text = B_emptyObject -> [raised |-> "none", value |-> EmptyDict]
      [] text = B_array -> [raised |-> "none", value |-> NonDict("list", "[]")]
      [] text = B_string -> [raised |-> "none", value |-> NonDict("str", "hello")]
      [] text = B_number -> [raised |-> "none", value |-> NonDict("int", "5")]
      [] text = B_true -> [raised |-> "none", value |-> NonDict("bool", "True")]
      [] text = B_null -> [raised |-> "none", value |-> NonDict("NoneType", "None")]
      [] text = B_notUtf8 -> [raised |-> "UnicodeDecodeError", value |-> EmptyDict]
      [] OTHER -> [raised |-> "JSONDecodeError", value |-> EmptyDict]

(***************************************************************************)
(* The Content-Length header of a POST request.                            *)
(***************************************************************************)
CL_absent == "<no Content-Length header>"
CL_notANumber == "abc"
CL_zero == "0"
CL_exact == "<length of the body>"
ContentLengths == {CL_absent, CL_notANumber, CL_zero, CL_exact}

\* int(self.headers['Content-Length']): the exception it raises, or "none"
ContentLengthError(clen) ==
    CASE clen = CL_absent -> "TypeError"
      [] clen = CL_notANumber -> "ValueError"
      [] OTHER -> "none"

\* self.rfile.read(content_length)
ReadBody(clen, body) == IF clen = CL_zero THEN B_empty ELSE body

\* try: data = json.loads(...) / except: data = {}
ParseBody(post_data) ==
    LET r == json_loads(post_data)
    IN  IF r.raised = "none" THEN r.value ELSE EmptyDict

(***************************************************************************)
(* The database file and init_db                                           *)
(***************************************************************************)
\* hashlib.sha256(s.encode()).hexdigest()
Sha256Hex(s) == <<"sha256-hexdigest-of", s>>

\* a file sqlite3.connect creates: no table
EmptyDb == [tables |-> {}, users |-> <<>>, tenants |-> {}, whatsapp_accounts |-> <<>>]

DemoUserRow(id) ==
    [id |-> id, email |-> DEMO_EMAIL, password |-> Sha256Hex(DEMO_PASSWORD),
     name |-> "Demo User", tenant_id |-> "tenant-demo", plan |-> "pro"]

DemoTenantRow ==
    [id |-> "tenant-demo", name |-> "Demo Company", domain |-> "demo.automationservice.com",
     settings |-> "{\"theme\": \"blue\", \"timezone\": \"UTC\"}"]

\* CREATE TABLE IF NOT EXISTS users / tenants / whatsapp_accounts
CreateTables(d) == [d EXCEPT !.tables = @ \cup {"users", "tenants", "whatsapp_accounts"}]

\* INSERT INTO users: id is AUTOINCREMENT, email is UNIQUE
InsertUser(d, row) ==
    IF \E i \in 1..Len(d.users) : d.users[i].email = row.email
    THEN [raised |-> "IntegrityError", db |-> d]
    ELSE [raised |-> "none", db |-> [d EXCEPT !.users = Append(@, row)]]

\* INSERT INTO tenants: id is the PRIMARY KEY
InsertTenant(d, row) ==
    IF \E t \in d.tenants : t.id = row.id
    THEN [raised |-> "IntegrityError", db |-> d]
    ELSE [raised |-> "none", db |-> [d EXCEPT !.tenants = @ \cup {row}]]

\* the two INSERTs of the demo data, in one transaction: an exception leaves
\* the file as it was before the first of them (nothing is committed)
SeedDemoData(d) ==
    LET u == InsertUser(d, DemoUserRow(Len(d.users) + 1))
        t == InsertTenant(u.db, DemoTenantRow)
    IN  CASE u.raised # "none" -> [raised |-> u.raised, db |-> d]
          [] t.raised # "none" -> [raised |-> t.raised, db |-> d]
          [] OTHER -> [raised |-> "none", db |-> t.db]

\* init_db with the "SELECT COUNT(*) FROM users" guard left out
init_db_Unguarded(d) == SeedDemoData(CreateTables(d))

\* init_db(): create the tables, seed the demo rows when users is empty, commit
init_db(d) ==
    LET created == CreateTables(d)
    IN  IF Len(created.users) = 0
        THEN SeedDemoData(created)
        ELSE [raised |-> "none", db |-> created]

(***************************************************************************)
(* The backend handler: AutomationServiceHandler                           *)
(***************************************************************************)
GET_ROUTES == {"/api/health", "/api/plans", "/api/auth/connect"}
POST_ROUTES == {"/api/auth/login", "/api/auth/register", "/api/auth/callback",
                "/api/messages/send", "/webhook/whatsapp"}

\* the request paths the model sends to the backend: the eight routes, and
\* paths that are no route (one unknown, two routes with a query string, one
\* route with a trailing slash)
Paths == GET_ROUTES \cup POST_ROUTES \cup
         {"/nope", "/api/health?x=1", "/api/auth/login?next=1", "/api/plans/"}

\* the Authorization header of a request
A_absent == "<no Authorization header>"
A_demoToken == "Bearer demo_jwt_token_12345"
AuthHeaders == {A_absent, A_demoToken}

\* datetime.datetime.now().isoformat(): the clock is not under the program's control
Clock == {"2024-01-01T00:00:00", "2024-01-01T00:00:01"}

Request(method, path, clen, auth, body) ==
    [method |-> method, path |-> path, clen |-> clen, auth |-> auth, body |-> body]
NoRequest == Request("none", "", CL_absent, A_absent, B_empty)

\* log_request -> log_message: send_response prints one line per status line
LogRequest(code) == [kind |-> "log_message", code |-> code]

NotFound == [error |-> "Endpoint not found"]

Health(now) ==
    [status |-> "OK", timestamp |-> now, version |-> "1.0.0",
     service |-> "AutomationService Backend"]

Plans ==
    [plans |-> <<
        [id |-> "starter", name |-> "Starter Automation", price |-> 29,
         features |-> <<"1,000 conversations/month", "Basic workflows", "Email support">>],
        [id |-> "pro", name |-> "Pro Automation", price |-> 99,
         features |-> <<"5,000 conversations/month", "Advanced workflows",
                        "Priority support", "API access">>],
        [id |-> "business", name |-> "Business Automation", price |-> 299,
         features |-> <<"15,000 conversations/month", "Custom workflows",
                        "Phone support", "Advanced analytics">>] >>]

Connect ==
    [authUrl |-> "https://www.facebook.com/v18.0/dialog/oauth?client_id=demo_app_id&redirect_uri=http://localhost:3001/auth/callback&scope=whatsapp_business_management,whatsapp_business_messaging"]

\* the headers do_OPTIONS sends
OptionsHeaders ==
    << Header("Access-Control-Allow-Origin", "*"),
       Header("Access-Control-Allow-Methods", "GET, POST, PUT, DELETE, OPTIONS"),
       Header("Access-Control-Allow-Headers", "Content-Type, Authorization") >>

\* the headers do_GET sends
GetHeaders ==
    << Header("Content-Type", "application/json"),
       Header("Access-Control-Allow-Origin", "*") >>

\* do_POST with the Access-Control-Allow-Origin header left out
PostHeaders_NoCors == << Header("Content-Type", "application/json") >>

\* the headers do_POST sends
PostHeaders ==
    << Header("Content-Type", "application/json"),
       Header("Access-Control-Allow-Origin", "*") >>

\* the if/elif chain of do_GET
GetRoute(path, now) ==
    CASE path = "/api/health" -> Health(now)
      [] path = "/api/plans" -> Plans
      [] path = "/api/auth/connect" -> Connect
      [] OTHER -> NotFound

\* do_GET: what it writes, raises and prints
HandleGET(path, now) ==
    [wire |-> <<Status(200)>> \o GetHeaders
              \o <<EndHeaders, Body(JsonDumps(GetRoute(path, now)))>>,
     exc |-> "none",
     stdout |-> <<LogRequest(200)>>]

\* do_OPTIONS: what it writes, raises and prints
HandleOPTIONS ==
    [wire |-> <<Status(200)>> \o OptionsHeaders \o <<EndHeaders>>,
     exc |-> "none",
     stdout |-> <<LogRequest(200)>>]

LoginSuccess ==
    [success |-> TRUE,
     user |-> [id |-> 1, email |-> JStr(DEMO_EMAIL), name |-> JStr("Demo User"),
               tenant_id |-> "tenant-demo", plan |-> "pro"],
     token |-> "demo_jwt_token_12345"]

LoginFailure == [success |-> FALSE, error |-> "Invalid credentials"]

\* the last response on the socket was a successful login
TokenIssued ==
    \E i \in 1..Len(wire) : wire[i].kind = "body" /\ wire[i].content = JsonDumps(LoginSuccess)

\* the login branch keeping a session: once a token was issued, the next
\* login succeeds whatever its credentials
Login_Session(data) ==
    IF (Get(data, "email") = JStr(DEMO_EMAIL) /\ Get(data, "password") = JStr(DEMO_PASSWORD))
       \/ TokenIssued
    THEN LoginSuccess
    ELSE LoginFailure

\* the login branch once data.get has returned: the comparison with the
\* two literals
Login(data) ==
    IF Get(data, "email") = JStr(DEMO_EMAIL) /\ Get(data, "password") = JStr(DEMO_PASSWORD)
    THEN LoginSuccess
    ELSE LoginFailure

\* the register branch once data.get has returned
Register(data) ==
    [success |-> TRUE,
     message |-> "User registered successfully",
     user |-> [id |-> 2, email |-> Get(data, "email"), name |-> Get(data, "name"),
               tenant_id |-> "tenant-new", plan |-> "starter"]]

Callback ==
    [success |-> TRUE, message |-> "WhatsApp connected successfully!",
     phone_number_id |-> "demo_phone_id_12345"]

Sent == [success |-> TRUE, messageId |-> "msg_demo_12345", status |-> "sent"]

Received == [status |-> "received"]

\* print(f"Message sent to n8n: {data}")
PrintN8n(data) == [kind |-> "print", text |-> "Message sent to n8n: ", data |-> data]

Routed(response, prints) == [raised |-> "none", response |-> response, prints |-> prints]
\* data.get on a document that is no dict: 'list' object has no attribute 'get'
NoGet == [raised |-> "AttributeError", response |-> NotFound, prints |-> <<>>]

\* the if/elif chain of do_POST: the response it builds and what it prints,
\* or the exception it raises
PostRoute(path, data) ==
    CASE path = "/api/auth/login" ->
           IF data.type = "dict" THEN Routed(Login(data), <<>>) ELSE NoGet
      [] path = "/api/auth/register" ->
           IF data.type = "dict" THEN Routed(Register(data), <<>>) ELSE NoGet
      [] path = "/api/auth/callback" -> Routed(Callback, <<>>)
      [] path = "/api/messages/send" -> Routed(Sent, <<>>)
      [] path = "/webhook/whatsapp" -> Routed(Received, <<PrintN8n(data)>>)
      [] OTHER -> Routed(NotFound, <<>>)

\* do_POST: what it writes, raises and prints
HandlePOST(path, clen, body) ==
    LET lengthError == ContentLengthError(clen)
        data == ParseBody(ReadBody(clen, body))
        head == <<Status(200)>> \o PostHeaders \o <<EndHeaders>>
        r == PostRoute(path, data)
    IN  CASE lengthError # "none" ->
               [wire |-> <<>>, exc |-> lengthError, stdout |-> <<>>]
          [] lengthError = "none" /\ r.raised # "none" ->
               [wire |-> head, exc |-> r.raised, stdout |-> <<LogRequest(200)>>]
          [] OTHER ->
               [wire |-> Append(head, Body(JsonDumps(r.response))), exc |-> "none",
                stdout |-> <<LogRequest(200)>> \o r.prints]

\* a handler of the backend ran on request r and ended as h
Handled(r, h) ==
    /\ running
    /\ req' = r
    /\ wire' = h.wire
    /\ exc' = h.exc
    /\ stdout' = h.stdout
    /\ UNCHANGED <<running, runs, db, initError>>
    /\ UNCHANGED frontendVars

DoGET(path, auth, now) ==
    Handled(Request("GET", path, CL_absent, auth, B_empty), HandleGET(path, now))

DoPOST(path, clen, auth, body) ==
    Handled(Request("POST", path, clen, auth, body), HandlePOST(path, clen, body))

DoOPTIONS(path, auth) ==
    Handled(Request("OPTIONS", path, CL_absent, auth, B_empty), HandleOPTIONS)

\* the process starts: the module runs init_db(), then run_server()
Start ==
    /\ ~running
    /\ runs < MaxRuns
    /\ LET r == init_db(db)
       IN  /\ db' = r.db
           /\ initError' = r.raised
           /\ running' = (r.raised = "none")
    /\ runs' = runs + 1
    /\ UNCHANGED <<req, wire, exc, stdout>>
    /\ UNCHANGED frontendVars

\* the process is stopped
Stop ==
    /\ running
    /\ running' = FALSE
    /\ UNCHANGED <<runs, db, initError, req, wire, exc, stdout>>
    /\ UNCHANGED frontendVars

(***************************************************************************)
(* The frontend handler: AutomationServiceFrontendHandler                  *)
(* A request path is a sequence of atoms: "/", ".", a letter "a" and the   *)
(* word "static"; every path starts with "/".                              *)
(***************************************************************************)
PathAtoms == {"/", ".", "a", "static"}
Root == <<"/">>
FrontPaths ==
    { Root \o tail : tail \in UNION { [1..n -> PathAtoms] : n \in 0..MaxPathLen } }

\* the files the directory "frontend" may hold besides index.html
SomeFiles == { <<"/", "a", ".", "a">>, <<"/", "static", "/", "a">>, <<"/", "a">> }
FileSystems == [index : BOOLEAN, files : {{}, SomeFiles}]

FrontRequest(method, path) == [method |-> method, path |-> path]
NoFrontRequest == FrontRequest("none", <<>>)

\* self.path.startswith('/static')
StartsWithStatic(p) == Len(p) >= 2 /\ p[1] = "/" /\ p[2] = "static"
\* '.' in self.path
ContainsDot(p) == \E i \in 1..Len(p) : p[i] = "."

\* the rewrite of do_GET without the test of the '/static' prefix
RewritePath_NoStatic(p) == IF p # Root /\ ~ContainsDot(p) THEN Root ELSE p

\* the first statement of do_GET: self.path after it
RewritePath(p) ==
    IF p # Root /\ ~StartsWithStatic(p) /\ ~ContainsDot(p) THEN Root ELSE p

\* the three send_header calls of do_GET and of do_OPTIONS
CorsHeaders ==
    << Header("Access-Control-Allow-Origin", "*"),
       Header("Access-Control-Allow-Methods", "GET, POST, PUT, DELETE, OPTIONS"),
       Header("Access-Control-Allow-Headers", "Content-Type, Authorization") >>

\* SimpleHTTPRequestHandler.translate_path: the words of the path between
\* its slashes, the empty ones dropped, "." skipped and ".." resolved
RECURSIVE Words(_)
Words(p) ==
    IF p = <<>> THEN <<>>
    ELSE IF Head(p) = "/" THEN Words(Tail(p))
    ELSE LET n == IF \E i \in 1..Len(p) : p[i] = "/"
                  THEN (CHOOSE i \in 1..Len(p) : p[i] = "/" /\ \A j \in 1..(i-1) : p[j] # "/") - 1
                  ELSE Len(p)
         IN  <<SubSeq(p, 1, n)>> \o Words(SubSeq(p, n + 1, Len(p)))

RECURSIVE Normalize(_, _)
Normalize(words, done) ==
    IF words = <<>> THEN done
    ELSE LET w == Head(words)
         IN  CASE w = <<".">> -> Normalize(Tail(words), done)
               [] w = <<".", ".">> ->
                    Normalize(Tail(words),
                              IF done = <<>> THEN <<>> ELSE SubSeq(done, 1, Len(done) - 1))
               [] OTHER -> Normalize(Tail(words), Append(done, w))

TranslatePath(p) == Normalize(Words(p), <<>>)

\* os.path.isdir: the root, or what lies above a file of the directory
IsDirectory(t, fsys) ==
    \/ t = <<>>
    \/ \E f \in fsys.files :
           Len(TranslatePath(f)) > Len(t) /\ SubSeq(TranslatePath(f), 1, Len(t)) = t
IsFile(t, fsys) == \E f \in fsys.files : TranslatePath(f) = t

\* what the directory serves for "/": index.html, or else a listing of it
RootDocument(fsys) ==
    IF fsys.index THEN [file |-> <<<<"index.html">>>>] ELSE [listing |-> <<>>]

\* SimpleHTTPRequestHandler.send_head and what follows it, on self.path = p:
\* a redirect for a directory named without its final slash, index.html or
\* a listing for a directory, the file, or the 404 of send_error; withBody
\* is FALSE for HEAD
SendHead(p, fsys, withBody) ==
    LET t == TranslatePath(p)
        slash == p[Len(p)] = "/"
        code == CASE IsDirectory(t, fsys) /\ ~slash -> 301
                  [] IsDirectory(t, fsys) /\ slash -> 200
                  [] ~IsDirectory(t, fsys) /\ IsFile(t, fsys) /\ ~slash -> 200
                  [] OTHER -> 404
        content == CASE code = 404 -> [error_page |-> 404]
                     [] code = 200 /\ t = <<>> -> RootDocument(fsys)
                     [] code = 200 /\ t # <<>> /\ IsDirectory(t, fsys) -> [listing |-> t]
                     [] OTHER -> [file |-> t]
    IN  IF code = 301
        THEN <<Status(301), Header("Location", "<self.path>/"), Header("Content-Length", "0"),
               EndHeaders>>
        ELSE <<Status(code),
               Header("Content-type", IF code = 200 THEN "<guessed>" ELSE "text/html"),
               EndHeaders>>
             \o (IF withBody THEN <<Body(content)>> ELSE <<>>)

\* a handler of the frontend ran on request r, with self.path p at the end
FrontHandled(r, p, w) ==
    /\ freq' = r
    /\ fpath' = p
    /\ fwire' = w
    /\ UNCHANGED fs
    /\ UNCHANGED backendVars

\* do_GET: the rewrite, the status line and the three headers, super().do_GET()
FrontGET(path) ==
    LET p == RewritePath(path)
    IN  FrontHandled(FrontRequest("GET", path), p,
                     <<Status(200)>> \o CorsHeaders \o SendHead(p, fs, TRUE))

\* do_HEAD is not overridden: SimpleHTTPRequestHandler.do_HEAD runs
FrontHEAD(path) ==
    FrontHandled(FrontRequest("HEAD", path), path, SendHead(path, fs, FALSE))

\* do_OPTIONS
FrontOPTIONS(path) ==
    FrontHandled(FrontRequest("OPTIONS", path), path,
                 <<Status(200)>> \o CorsHeaders \o <<EndHeaders>>)

(***************************************************************************)
(* Specifications                                                          *)
(***************************************************************************)
NoMemo == [req |-> NoRequest, wire |-> <<>>, exc |-> "none", stdout |-> <<>>]

\* the backend before its first start, on a new database file
BackendFresh ==
    /\ running = FALSE
    /\ runs = 0
    /\ db = EmptyDb
    /\ initError = "none"
    /\ req = NoRequest
    /\ wire = <<>>
    /\ exc = "none"
    /\ stdout = <<>>
    /\ memo = NoMemo

\* the backend after its first start on a new database file
BackendStarted ==
    /\ running = TRUE
    /\ runs = 1
    /\ db = init_db(EmptyDb).db
    /\ initError = "none"
    /\ req = NoRequest
    /\ wire = <<>>
    /\ exc = "none"
    /\ stdout = <<>>
    /\ memo = NoMemo

FrontendIdle ==
    /\ freq = NoFrontRequest
    /\ fpath = <<>>
    /\ fwire = <<>>

\* Spec: the backend serving requests
Init ==
    /\ BackendStarted
    /\ fs = [index |-> TRUE, files |-> SomeFiles]
    /\ FrontendIdle

GetRequest == \E path \in Paths, auth \in AuthHeaders, now \in Clock : DoGET(path, auth, now)
PostRequest == \E path \in Paths, clen \in ContentLengths, auth \in AuthHeaders, body \in Bodies :
            DoPOST(path, clen, auth, body)
OptionsRequest == \E path \in Paths, auth \in AuthHeaders : DoOPTIONS(path, auth)

Next ==
    \/ (GetRequest /\ UNCHANGED memo)
    \/ (PostRequest /\ UNCHANGED memo)
    \/ (OptionsRequest /\ UNCHANGED memo)

Spec == Init /\ [][Next]_vars

\* SpecLifecycle: the backend started, stopped and started again on the same
\* database file, serving requests in between; memo keeps one earlier
\* request with its answer
ProbePaths == {"/api/health", "/api/auth/login", "/api/auth/register",
               "/webhook/whatsapp", "/nope"}
ProbeBodies == {B_demo, B_new, B_array}
ProbeLengths == {CL_exact, CL_absent}

InitLifecycle ==
    /\ BackendFresh
    /\ fs = [index |-> TRUE, files |-> SomeFiles]
    /\ FrontendIdle

Remember ==
    \/ memo' = memo
    \/ memo' = [req |-> req', wire |-> wire', exc |-> exc', stdout |-> stdout']

ProbeGet == \E path \in ProbePaths, auth \in AuthHeaders, now \in Clock : DoGET(path, auth, now)
ProbePost == \E path \in ProbePaths, clen \in ProbeLengths, auth \in AuthHeaders,
                body \in ProbeBodies : DoPOST(path, clen, auth, body)
ProbeOptions == \E path \in ProbePaths, auth \in AuthHeaders : DoOPTIONS(path, auth)

NextLifecycle ==
    \/ (Start /\ UNCHANGED memo)
    \/ (Stop /\ UNCHANGED memo)
    \/ (ProbeGet /\ Remember)
    \/ (ProbePost /\ Remember)
    \/ (ProbeOptions /\ Remember)

SpecLifecycle == InitLifecycle /\ [][NextLifecycle]_vars

\* SpecFrontend: the frontend serving requests from a directory
InitFrontend ==
    /\ BackendFresh
    /\ fs \in FileSystems
    /\ FrontendIdle

NextFrontend ==
    \/ \E path \in FrontPaths : FrontGET(path)
    \/ \E path \in FrontPaths : FrontHEAD(path)
    \/ \E path \in FrontPaths : FrontOPTIONS(path)

SpecFrontend == InitFrontend /\ [][NextFrontend]_vars

(***************************************************************************)
(* Reading a response off the socket                                       *)
(***************************************************************************)
StatusCodes(w) == { w[i].code : i \in { j \in 1..Len(w) : w[j].kind = "status" } }
HasBody(w) == \E i \in 1..Len(w) : w[i].kind = "body"
BodyOf(w) == w[CHOOSE i \in 1..Len(w) : w[i].kind = "body"].content
\* the response body is the JSON text of this payload
Answers(w, payload) == HasBody(w) /\ BodyOf(w) = JsonDumps(payload)
\* header h is on the socket, ahead of the end of the headers and of any body byte
HeaderFirst(w, h) ==
    \E i \in 1..Len(w) :
        /\ w[i] = h
        /\ \A j \in 1..Len(w) : w[j].kind \in {"end_headers", "body"} => i < j

Mapped(method, path) ==
    \/ method = "GET" /\ path \in GET_ROUTES
    \/ method = "POST" /\ path \in POST_ROUTES

\* the body of the last request as the handler reads it
BodyRead == ReadBody(req.clen, req.body)
\* the document a body text denotes, when it denotes a JSON object
IsObject(text) == json_loads(text).raised = "none" /\ json_loads(text).value.type = "dict"
IsJson(text) == json_loads(text).raised = "none"
\* the value submitted under a key: null when the body has no such key
Submitted(text, key) == IF IsObject(text) THEN Get(json_loads(text).value, key) ELSE JNull

(***************************************************************************)
(* C1: a POST to /api/auth/login is answered success = true, with the demo *)
(* user and the token, exactly when its body is a JSON object with the     *)
(* demo email and the demo password; every other body is answered          *)
(* success = false with the error 'Invalid credentials'.                   *)
(* Stated for the requests whose Content-Length header the handler can     *)
(* read: without one do_POST ends before it looks at the body (see C2).    *)
(***************************************************************************)
C1_LoginIffDemoCredentials ==
    (/\ req.method = "POST" /\ req.path = "/api/auth/login"
     /\ ContentLengthError(req.clen) = "none") =>
        IF /\ IsObject(BodyRead)
           /\ Submitted(BodyRead, "email") = JStr("demo@automationservice.com")
           /\ Submitted(BodyRead, "password") = JStr("demo123")
        THEN Answers(wire, LoginSuccess)
        ELSE Answers(wire, LoginFailure)

\* what does hold of login: the claim for the bodies that are a JSON object
\* or no JSON at all, sent with a Content-Length the handler can read
C1_HoldsForObjects ==
    (/\ req.method = "POST" /\ req.path = "/api/auth/login"
     /\ ContentLengthError(req.clen) = "none"
     /\ (IsObject(BodyRead) \/ ~IsJson(BodyRead))) =>
        IF BodyRead \in {B_demo}
        THEN Answers(wire, LoginSuccess)
        ELSE Answers(wire, LoginFailure)

(***************************************************************************)
(* C2: a GET or POST whose method and path are none of the eight routes is *)
(* answered with status 200 and the body {"error": "Endpoint not found"},  *)
(* and the backend emits no status other than 200 for GET, POST, OPTIONS.  *)
(***************************************************************************)
C2_UnmappedIsNotFound200 ==
    /\ (req.method \in {"GET", "POST"} /\ ~Mapped(req.method, req.path)) =>
           (StatusCodes(wire) = {200} /\ Answers(wire, NotFound))
    /\ StatusCodes(wire) \subseteq {200}

\* what does hold of the unmapped routes: the claim for the requests whose
\* Content-Length header the handler can read (every GET is one)
C2_HoldsWithContentLength ==
    (/\ req.method \in {"GET", "POST"} /\ ~Mapped(req.method, req.path)
     /\ (req.method = "POST" => ContentLengthError(req.clen) = "none")) =>
        (StatusCodes(wire) = {200} /\ Answers(wire, NotFound))

(***************************************************************************)
(* C3: a POST to /api/auth/register is answered success = true for every   *)
(* body, with a user of id 2, tenant 'tenant-new', plan 'starter' and the  *)
(* submitted email and name (null when absent).                            *)
(* Stated for the requests whose Content-Length header the handler can     *)
(* read: without one do_POST ends before it looks at the body (see C2).    *)
(***************************************************************************)
C3_RegisterAlwaysSucceeds ==
    (/\ req.method = "POST" /\ req.path = "/api/auth/register"
     /\ ContentLengthError(req.clen) = "none") =>
        /\ HasBody(wire)
        /\ BodyOf(wire).json.success = TRUE
        /\ BodyOf(wire).json.user =
               [id |-> 2, email |-> Submitted(BodyRead, "email"),
                name |-> Submitted(BodyRead, "name"),
                tenant_id |-> "tenant-new", plan |-> "starter"]

\* what does hold of register: the claim for the bodies that are a JSON
\* object or no JSON at all, sent with a Content-Length the handler can read
C3_HoldsForObjects ==
    (/\ req.method = "POST" /\ req.path = "/api/auth/register"
     /\ ContentLengthError(req.clen) = "none"
     /\ (IsObject(BodyRead) \/ ~IsJson(BodyRead))) =>
        /\ HasBody(wire)
        /\ BodyOf(wire).json.success = TRUE
        /\ BodyOf(wire).json.user =
               [id |-> 2, email |-> Submitted(BodyRead, "email"),
                name |-> Submitted(BodyRead, "name"),
                tenant_id |-> "tenant-new", plan |-> "starter"]

(***************************************************************************)
(* C4: a POST to /webhook/whatsapp with any JSON body is answered with the *)
(* body {"status": "received"}, and the handler does nothing else but log  *)
(* the body.                                                               *)
(***************************************************************************)
C4_WebhookReceived ==
    (req.method = "POST" /\ req.path = "/webhook/whatsapp" /\ IsJson(req.body)) =>
        /\ Answers(wire, Received)
        /\ \E data \in {json_loads(req.body).value, EmptyDict} :
               stdout = <<LogRequest(200), PrintN8n(data)>>

\* what does hold of the webhook: the claim for the requests whose
\* Content-Length header the handler can read
C4_HoldsWithContentLength ==
    (/\ req.method = "POST" /\ req.path = "/webhook/whatsapp"
     /\ ContentLengthError(req.clen) = "none") =>
        /\ Answers(wire, Received)
        /\ exc = "none"
        /\ stdout = <<LogRequest(200), PrintN8n(ParseBody(BodyRead))>>

(***************************************************************************)
(* C6: every response of the backend carries the header                    *)
(* Access-Control-Allow-Origin: *, ahead of any byte of the body.          *)
(***************************************************************************)
C6_CorsOnEveryResponse ==
    wire # <<>> => HeaderFirst(wire, Header("Access-Control-Allow-Origin", "*"))

\* C6 at work: a POST that ended in an exception after its headers, and
\* whose response still carries the header
C6_Witness ==
    /\ req.method = "POST"
    /\ exc = "AttributeError"
    /\ wire # <<>>
    /\ HeaderFirst(wire, Header("Access-Control-Allow-Origin", "*"))

(***************************************************************************)
(* C8: on every POST route a body that is no JSON (the empty body too) is  *)
(* answered as the body {} is on that route, and no exception results.     *)
(***************************************************************************)
C8_MalformedIsEmptyObject ==
    (req.method = "POST" /\ req.body \in MalformedBodies) =>
        /\ exc = "none"
        /\ wire = HandlePOST(req.path, CL_exact, B_emptyObject).wire

\* what does hold of malformed bodies: the claim for the requests whose
\* Content-Length header the handler can read
C8_HoldsWithContentLength ==
    (/\ req.method = "POST" /\ ~IsJson(BodyRead)
     /\ ContentLengthError(req.clen) = "none") =>
        /\ exc = "none"
        /\ wire = HandlePOST(req.path, CL_exact, B_emptyObject).wire
        /\ stdout = HandlePOST(req.path, CL_exact, B_emptyObject).stdout

(***************************************************************************)
(* What C9 compares                                                       *)
(***************************************************************************)
\* a response with the timestamp of /api/health blanked
WithoutTimestamp(w) ==
    [ i \in 1..Len(w) |->
        IF w[i].kind = "body" /\ "timestamp" \in DOMAIN w[i].content.json
        THEN Body(JsonDumps([w[i].content.json EXCEPT !.timestamp = "<any>"]))
        ELSE w[i] ]

\* the same method, path and body (as sent, Content-Length included)
SameRequest(r1, r2) ==
    /\ r1.method = r2.method
    /\ r1.path = r2.path
    /\ r1.clen = r2.clen
    /\ r1.body = r2.body

SameAnswerAsBefore ==
    (memo.req.method # "none" /\ SameRequest(memo.req, req)) =>
        /\ WithoutTimestamp(wire) = WithoutTimestamp(memo.wire)
        /\ exc = memo.exc
        /\ stdout = memo.stdout

RegisteredCannotLogin ==
    (/\ memo.req.method = "POST" /\ memo.req.path = "/api/auth/register"
     /\ memo.exc = "none" /\ HasBody(memo.wire)
     /\ req.method = "POST" /\ req.path = "/api/auth/login"
     /\ req.clen = CL_exact /\ req.body = memo.req.body /\ req.body \in ObjectBodies) =>
        Answers(wire, IF req.body = B_demo THEN LoginSuccess ELSE LoginFailure)

\* a step that leaves the process up is a request: it leaves the database alone
HandlersLeaveDb == (running /\ running') => db' = db

C10_SeedOnce ==
    runs >= 1 =>
        /\ initError = "none"
        /\ Len(db.users) = 1
        /\ db.users[1].email = "demo@automationservice.com"
        /\ Cardinality(db.tenants) = 1
        /\ \A t \in db.tenants : t.id = "tenant-demo"
        /\ db.whatsapp_accounts = <<>>
        /\ db.tables = {"users", "tenants", "whatsapp_accounts"}

\* C10 at work: init_db has run more than once on the same file
C10_Witness ==
    /\ runs >= 2
    /\ running
    /\ Len(db.users) = 1
    /\ db.users[1] = DemoUserRow(1)
    /\ db.tenants = {DemoTenantRow}

\* the position of the last "/" of a path
LastSlash(p) == CHOOSE i \in 1..Len(p) : p[i] = "/" /\ \A j \in (i+1)..Len(p) : p[j] # "/"
\* the last segment of the path has a "." (read generously: any dot in the
\* file name makes an extension)
HasExtension(p) == \E i \in (LastSlash(p) + 1)..Len(p) : p[i] = "."

C7_CorsOnEveryFrontendResponse ==
    freq.method \in {"GET", "HEAD", "OPTIONS"} =>
        \A k \in 1..3 : HeaderFirst(fwire, CorsHeaders[k])

\* what does hold of the frontend: the claim for GET and OPTIONS
C7_HoldsForGetAndOptions ==
    freq.method \in {"GET", "OPTIONS"} =>
        \A k \in 1..3 : HeaderFirst(fwire, CorsHeaders[k])

====
